---- MODULE Spec2Model ----
(***************************************************************************)
(* Model of cmorph_downloader_v3.py: the download / verify / report        *)
(* pipeline over a date range of hourly files.                             *)
(*                                                                         *)
(* The local disk and the remote service are the environment.  Every HTTP  *)
(* request and every file-system call that can fail is one step whose      *)
(* outcome is chosen nondeterministically among the outcomes the code      *)
(* distinguishes.                                                          *)
(***************************************************************************)
EXTENDS Integers, Sequences, FiniteSets, TLC

\* ----------------------------------------------------------------- bounds
\* Number of calendar days in the range (the program: 1998-01-01..2000-12-31).
NumDays == 1
\* Hour slots per day (the program: range(24)).
HoursPerDay == 3
\* File sizes (local, remote content-length, received body) are 0..MaxSize.
MaxSize == 1

\* ------------------------------------------------------ program constants
\* max_retries=3 (default of download_file, and the value every caller passes)
DefaultMaxRetries == 3
\* download_day takes the 2 existing files with the highest hour
LatestCount == 2
\* get_remote_file_size returns -1 when the size could not be obtained
SizeError == -1
\* start_date = datetime(1998, 1, 1)
StartYear == 1998
StartMonth == 1

\* ------------------------------------------------------------------ data
\* Marks a path with no file on disk (os.path.exists is False); not a size.
Absent == -2
Sizes == 0..MaxSize
Days == 1..NumDays
Hours == 0..(HoursPerDay - 1)

\* file_url and local_file_path are functions of (date, hour) only.
FileUrl(d, h) == <<"url", d, h>>
LocalFilePath(d, h) == <<"path", d, h>>
Paths == {LocalFilePath(d, h) : d \in Days, h \in Hours}
NoPath == <<"path", 0, 0>>
NoUrl == <<"url", 0, 0>>

\* year_month_dir: the modelled range stays inside the first month.
YearMonthDir(d) == <<StartYear, StartMonth>>
DirOf(path) == YearMonthDir(path[2])

\* The dicts appended to failed_files / files_to_retry.
FailureRecord_hour0(d, h) ==
    [date |-> d, hour |-> 0, url |-> FileUrl(d, h), local_path |-> LocalFilePath(d, h)]

FailureRecord(d, h) ==
    [date |-> d, hour |-> h, url |-> FileUrl(d, h), local_path |-> LocalFilePath(d, h)]

\* The dicts appended to missing_hours, with the day they belong to.
MissingEntry(d, h, why) ==
    [date |-> d, hour |-> h, url |-> FileUrl(d, h),
     local_path |-> LocalFilePath(d, h), reason |-> why]

\* A JSON report file on disk: absent, or holding a list of records.
NoFile == [exists |-> FALSE, content |-> <<>>]
JsonFile(records) == [exists |-> TRUE, content |-> records]
\* A report left on disk by an earlier run.
StaleFile == JsonFile(<<FailureRecord(1, 0)>>)

\* Outcomes of requests.head as get_remote_file_size tells them apart.
HeadOutcomes == {"ok", "notfound", "status", "exc"}

VARIABLES
    fs,                  \* local disk: path -> size, or Absent
    dirs,                \* year/month directories that exist
    remoteLen,           \* content-length a 200 answer to HEAD reports
    getMode,             \* how content requests end: "any", or one outcome always
    failed_report,       \* failed_downloads.json
    missing_report,      \* missing_files.json
    pc,                  \* control point
    caller,              \* who called download_file
    url, local_path, max_retries, check_size,   \* arguments of download_file
    retries,             \* download_file's retry counter
    result,              \* value returned by the call that just ended
    nGet,                \* content (GET) requests issued by the current call
    lastHead,            \* outcome of the latest HEAD request of the call
    hadFile,             \* the local file existed when the call began
    current_date, hour, success_count, failed_files, latest_files,
    successful_downloads, all_failed_files,
    missing_data, missing_hours, files_to_retry, idx, still_failed,
    startValid,          \* every slot had a valid local file when the run began
    env,                 \* how the environment answers, when it is held fixed
    check_latest,        \* argument of download_day
    first_fs,            \* the disk before the first of two compared calls
    first_result         \* what the first of two compared calls returned and left

diskVars == <<fs, dirs, remoteLen, getMode, failed_report, missing_report>>
callVars == <<url, local_path, max_retries, check_size, retries, result,
              nGet, lastHead, hadFile>>
dayVars == <<current_date, hour, success_count, failed_files, latest_files>>
mainVars == <<successful_downloads, all_failed_files, missing_data,
              missing_hours, files_to_retry, idx, still_failed>>
cmpVars == <<env, check_latest, first_fs, first_result>>
vars == <<diskVars, pc, caller, callVars, dayVars, mainVars, startValid, cmpVars>>

\* ----------------------------------------------------------- environment
\* With env.fixed the same request is always answered the same way: the HEAD
\* request for a path as env.head says, a received body has env.body bytes, a
\* transfer that breaks off leaves env.part bytes (Absent: it wrote nothing),
\* and os.remove works or fails as env.rm says.  Otherwise every answer is
\* open at every request.
HeadChoices(p) == IF env.fixed THEN {env.head[p]} ELSE HeadOutcomes
BodyChoices == IF env.fixed THEN {env.body} ELSE Sizes
PartChoices == IF env.fixed THEN {env.part} ELSE {Absent} \cup (Sizes \ {MaxSize})
RemoveChoices == IF env.fixed THEN {env.rm} ELSE BOOLEAN


\* ------------------------------------------------- get_remote_file_size
\* The size a HEAD outcome yields: content-length on 200, else -1.
get_remote_file_size_zero(outcome) ==
    IF outcome = "ok" THEN remoteLen ELSE 0

get_remote_file_size(outcome) ==
    IF outcome = "ok" THEN remoteLen ELSE SizeError

\* --------------------------------------------------- check_file_integrity
\* local: the local file (Absent or its size); outcome: what HEAD answers.
\* No HEAD request is made when the file is absent.
check_file_integrity_strict(local, outcome) ==
    /\ local # Absent
    /\ get_remote_file_size(outcome) = local

check_file_integrity_nocompare(local, outcome) ==
    local # Absent

check_file_integrity_shortonly(local, outcome) ==
    IF local = Absent THEN FALSE
    ELSE IF get_remote_file_size(outcome) = SizeError THEN TRUE
    ELSE IF get_remote_file_size(outcome) > local THEN FALSE
    ELSE TRUE

check_file_integrity(local, outcome) ==
    IF local = Absent THEN FALSE
    ELSE IF get_remote_file_size(outcome) = SizeError THEN TRUE
    ELSE IF get_remote_file_size(outcome) # local THEN FALSE
    ELSE TRUE

\* ------------------------------------------------------------ download_file
\* Values of the call's locals outside a call (download_file is not running).
CallIdle ==
    /\ url' = NoUrl /\ local_path' = NoPath
    /\ max_retries' = 0 /\ check_size' = FALSE /\ retries' = 0 /\ result' = FALSE
    /\ nGet' = 0 /\ lastHead' = "none" /\ hadFile' = FALSE

\* download_file returns v.
Return(v) == pc' = "df_ret" /\ result' = v

\* Lines 64-85: makedirs, then the existing-file test: with check_size a HEAD
\* request and the comparison, and on a mismatch os.remove (which may fail).
\* A file cannot exist in a directory that does not, so a directory that had
\* to be created holds no file.  os.makedirs is outside any try.
EnterDownloadFile(u, p, mr, cs, who) ==
    /\ url' = u /\ local_path' = p /\ max_retries' = mr /\ check_size' = cs
    /\ caller' = who
    /\ retries' = 0 /\ nGet' = 0
    /\ hadFile' = (fs[p] # Absent)
    /\ \/ /\ DirOf(p) \in dirs /\ fs[p] = Absent
          /\ dirs' = dirs /\ fs' = fs /\ lastHead' = "none"
          /\ pc' = "df_loop" /\ result' = FALSE
       \/ /\ DirOf(p) \in dirs /\ fs[p] # Absent /\ ~cs
          /\ dirs' = dirs /\ fs' = fs /\ lastHead' = "none"
          /\ Return(TRUE)
       \/ /\ DirOf(p) \in dirs /\ fs[p] # Absent /\ cs
          /\ dirs' = dirs
          /\ \E outcome \in HeadChoices(p) :
               /\ lastHead' = outcome
               /\ IF check_file_integrity(fs[p], outcome)
                  THEN fs' = fs /\ Return(TRUE)
                  ELSE \/ /\ TRUE \in RemoveChoices
                          /\ fs' = [fs EXCEPT ![p] = Absent]
                          /\ pc' = "df_loop" /\ result' = FALSE
                       \/ /\ FALSE \in RemoveChoices
                          /\ fs' = fs
                          /\ Return(FALSE)
       \/ /\ DirOf(p) \notin dirs
          /\ dirs' = dirs \cup {DirOf(p)} /\ fs' = fs /\ lastHead' = "none"
          /\ pc' = "df_loop" /\ result' = FALSE
       \/ /\ DirOf(p) \notin dirs
          /\ dirs' = dirs /\ fs' = fs /\ lastHead' = "none"
          /\ pc' = "raised" /\ result' = FALSE

\* Lines 124-125: the except branch counts the attempt, then decides.
TryAgainAfterException_early(r, mr) == r + 1 < mr - 1

TryAgainAfterException(r, mr) == r + 1 < mr

\* Line 110: a failed verification is retried unless this was the last attempt.
TryAgainAfterMismatch_always(r, mr) == TRUE

TryAgainAfterMismatch(r, mr) == r < mr - 1

\* Lines 123-132: the except branch of the download loop.
ExceptBranch ==
    /\ retries' = retries + 1
    /\ IF TryAgainAfterException(retries, max_retries)
       THEN pc' = "df_loop" /\ result' = FALSE
       ELSE Return(FALSE)

\* How a content request can end, under the behaviour getMode fixes:
\*   notfound   status 404
\*   transient  another error status (raise_for_status raises) or a transport
\*              fault, before any byte is written or mid-stream
\*   ioerr      open() or write() raises
\*   ok         the body arrives and is written in full
GetOutcomes == IF getMode = "any" THEN {"notfound", "transient", "ioerr", "ok"}
               ELSE {getMode}

\* Lines 88-132: one pass of the while loop: the GET request, the write, and
\* with check_size the HEAD request and comparison that verify the file.
\* After an exception the file is as before, or holds the bytes written so
\* far.  Every exception reaches the same except branch.  A loop left with
\* retries >= max_retries falls off the end (returns None).
Attempt ==
    /\ pc = "df_loop"
    /\ IF retries >= max_retries
       THEN /\ Return(FALSE)
            /\ UNCHANGED <<fs, retries, nGet, lastHead>>
       ELSE /\ nGet' = nGet + 1
            /\ \E kind \in GetOutcomes :
                 \/ /\ kind = "notfound"
                    /\ fs' = fs /\ retries' = retries /\ lastHead' = lastHead
                    /\ Return(FALSE)
                 \/ /\ kind \in {"transient", "ioerr"}
                    /\ \E part \in PartChoices :
                         fs' = IF part = Absent THEN fs
                               ELSE [fs EXCEPT ![local_path] = part]
                    /\ lastHead' = lastHead
                    /\ ExceptBranch
                 \/ /\ kind = "ok"
                    /\ \E body \in BodyChoices :
                         /\ fs' = [fs EXCEPT ![local_path] = body]
                         /\ IF ~check_size
                            THEN /\ lastHead' = lastHead /\ retries' = retries
                                 /\ Return(TRUE)
                            ELSE \E outcome \in HeadChoices(local_path) :
                                   /\ lastHead' = outcome
                                   /\ IF check_file_integrity(body, outcome)
                                      THEN retries' = retries /\ Return(TRUE)
                                      ELSE IF TryAgainAfterMismatch(retries, max_retries)
                                      THEN /\ retries' = retries + 1
                                           /\ pc' = "df_loop" /\ result' = FALSE
                                      ELSE retries' = retries /\ Return(FALSE)
    /\ UNCHANGED <<dirs, remoteLen, getMode, failed_report, missing_report, caller,
                   url, local_path, max_retries, check_size, hadFile,
                   dayVars, mainVars, startValid, cmpVars>>

\* ------------------------------------------------------------- initial disk
\* The only directory of the modelled range.
TheDir == YearMonthDir(1)

\* Every slot has a local file whose size is the remote size.
AllValid == \A p \in Paths : fs[p] = remoteLen

\* An environment that is not held fixed.
FreeEnv == [fixed |-> FALSE, head |-> [p \in Paths |-> "ok"], body |-> 0,
            part |-> Absent, rm |-> TRUE]

\* No comparison of two calls is under way.
NoResult == [count |-> 0, failed |-> <<>>, disk |-> [p \in Paths |-> Absent]]

\* Locals of download_file, download_day and main before anything ran.
InitCallAndRun ==
    /\ caller = "none"
    /\ url = NoUrl /\ local_path = NoPath
    /\ max_retries = 0 /\ check_size = FALSE /\ retries = 0 /\ result = FALSE
    /\ nGet = 0 /\ lastHead = "none" /\ hadFile = FALSE
    /\ current_date = 1 /\ hour = 0 /\ success_count = 0
    /\ failed_files = <<>> /\ latest_files = <<>>
    /\ successful_downloads = 0 /\ all_failed_files = <<>>
    /\ missing_data = <<>> /\ missing_hours = <<>>
    /\ files_to_retry = <<>> /\ idx = 1 /\ still_failed = <<>>

\* The start of a run of main, which calls download_day with check_latest=True.
InitLocals ==
    /\ env = FreeEnv /\ check_latest = TRUE
    /\ first_fs = [p \in Paths |-> Absent] /\ first_result = NoResult
    /\ InitCallAndRun

\* A disk holding at most one file of the range, for the single-call
\* specifications: a call reads and writes its own path only.
InitOneFile ==
    /\ remoteLen \in Sizes
    /\ getMode \in {"any", "notfound", "transient", "ioerr", "ok"}
    /\ \E p \in Paths, v \in {Absent} \cup Sizes :
         fs = [q \in Paths |-> IF q = p THEN v ELSE Absent]
    /\ dirs \in SUBSET {TheDir}
    /\ (\E q \in Paths : fs[q] # Absent) => TheDir \in dirs
    /\ failed_report = NoFile /\ missing_report = NoFile
    /\ startValid = AllValid
    /\ InitLocals

\* ------------------------------------- one call of check_file_integrity
InitCheck == InitOneFile /\ pc = "cfi_call"

\* Line 49: the existence test; a HEAD request follows only if the file exists.
IntegrityCall ==
    /\ pc = "cfi_call"
    /\ \E d \in Days, h \in Hours :
         /\ url' = FileUrl(d, h) /\ local_path' = LocalFilePath(d, h)
         /\ hadFile' = (fs[LocalFilePath(d, h)] # Absent)
         /\ IF fs[LocalFilePath(d, h)] = Absent
            THEN pc' = "cfi_ret" /\ result' = check_file_integrity(Absent, "none")
            ELSE pc' = "cfi_head" /\ result' = FALSE
    /\ UNCHANGED <<diskVars, caller, max_retries, check_size, retries, nGet,
                   lastHead, dayVars, mainVars, startValid, cmpVars>>

\* Lines 52-62: the HEAD request and the comparison.
IntegrityHead ==
    /\ pc = "cfi_head"
    /\ \E outcome \in HeadOutcomes :
         /\ lastHead' = outcome
         /\ result' = check_file_integrity(fs[local_path], outcome)
    /\ pc' = "cfi_ret"
    /\ UNCHANGED <<diskVars, caller, url, local_path, max_retries, check_size,
                   retries, nGet, hadFile, dayVars, mainVars,
                   startValid, cmpVars>>

NextCheck == IntegrityCall \/ IntegrityHead

SpecCheck == InitCheck /\ [][NextCheck]_vars

\* ------------------------------------------------ one call of download_file
InitFetch == InitOneFile /\ pc = "call"

FetchCall ==
    /\ pc = "call"
    /\ \E d \in Days, h \in Hours, mr \in 1..DefaultMaxRetries, cs \in BOOLEAN :
         EnterDownloadFile(FileUrl(d, h), LocalFilePath(d, h), mr, cs, "none")
    /\ UNCHANGED <<remoteLen, getMode, failed_report, missing_report, dayVars, mainVars,
                   startValid, cmpVars>>

NextFetch == FetchCall \/ Attempt

SpecFetch == InitFetch /\ [][NextFetch]_vars

\* The call keeps running: execution is sequential and every request, write
\* and sleep of the loop ends, so a step that can be taken is taken.
SpecFetchLive == SpecFetch /\ WF_vars(NextFetch)

\* ------------------------------------------------------------ download_day
\* Hours of the day whose local file exists (existing_files, line 161).
ExistingHours(d) == {h \in Hours : fs[LocalFilePath(d, h)] # Absent}

\* The elements of a set of hours as a list, highest first
\* (sorted(..., key=hour, reverse=True)).
RECURSIVE SortedDescending(_)
SortedDescending(S) ==
    IF S = {} THEN <<>>
    ELSE LET m == CHOOSE x \in S : \A y \in S : y <= x
         IN <<m>> \o SortedDescending(S \ {m})

\* seq[:k]
Prefix(seq, k) == SubSeq(seq, 1, IF Len(seq) < k THEN Len(seq) ELSE k)

\* Lines 159-164: the hours re-checked before the day's downloads.
LatestFiles(d) ==
    IF ~check_latest THEN <<>>
    ELSE IF Cardinality(ExistingHours(d)) >= LatestCount
    THEN Prefix(SortedDescending(ExistingHours(d)), LatestCount)
    ELSE <<>>

\* Lines 134-164 of download_day(year, month, day, check_latest); main's loop
\* (lines 285-292) passes check_latest=True.  os.makedirs is outside any try.
DownloadDayStart ==
    /\ pc = "main_loop" /\ current_date <= NumDays
    /\ \/ /\ YearMonthDir(current_date) \in dirs
          /\ dirs' = dirs
          /\ pc' = IF LatestFiles(current_date) # <<>> THEN "dd_latest" ELSE "dd_fetch"
       \/ /\ YearMonthDir(current_date) \notin dirs
          /\ dirs' = dirs \cup {YearMonthDir(current_date)}
          /\ pc' = IF LatestFiles(current_date) # <<>> THEN "dd_latest" ELSE "dd_fetch"
       \/ /\ YearMonthDir(current_date) \notin dirs
          /\ dirs' = dirs
          /\ pc' = "raised"
    /\ success_count' = 0 /\ failed_files' = <<>> /\ hour' = 0
    /\ latest_files' = LatestFiles(current_date)
    /\ UNCHANGED <<fs, remoteLen, getMode, failed_report, missing_report, caller,
                   callVars, current_date, mainVars, startValid, cmpVars>>

\* Lines 167-172: the disk after one of the latest files was checked: the
\* file is removed if the check fails (a failed os.remove is logged and ignored).
CheckLatestDisk_always(disk, p, outcome, removed) ==
    IF removed THEN [disk EXCEPT ![p] = Absent] ELSE disk

CheckLatestDisk(disk, p, outcome, removed) ==
    IF check_file_integrity(disk[p], outcome) THEN disk
    ELSE IF removed THEN [disk EXCEPT ![p] = Absent]
    ELSE disk

\* Lines 165-174: one pass of the loop over latest_files.
CheckLatest ==
    /\ pc = "dd_latest"
    /\ LET p == LocalFilePath(current_date, Head(latest_files)) IN
       \E outcome \in HeadChoices(p), removed \in RemoveChoices :
         /\ lastHead' = outcome
         /\ fs' = CheckLatestDisk(fs, p, outcome, removed)
    /\ latest_files' = Tail(latest_files)
    /\ pc' = IF Tail(latest_files) = <<>> THEN "dd_fetch" ELSE "dd_latest"
    /\ UNCHANGED <<dirs, remoteLen, getMode, failed_report, missing_report, caller,
                   url, local_path, max_retries, check_size, retries, result,
                   nGet, hadFile, current_date, hour, success_count,
                   failed_files, mainVars, startValid, cmpVars>>

\* Line 179: download_file(file_url, local_file_path, max_retries=3, check_size=True)
FetchSlot ==
    /\ pc = "dd_fetch" /\ hour < HoursPerDay
    /\ EnterDownloadFile(FileUrl(current_date, hour),
                         LocalFilePath(current_date, hour),
                         DefaultMaxRetries, TRUE, "day")
    /\ UNCHANGED <<remoteLen, getMode, failed_report, missing_report, dayVars, mainVars,
                   startValid, cmpVars>>

\* Lines 179-187: the outcome is tallied.
DayReturn ==
    /\ pc = "df_ret" /\ caller = "day"
    /\ IF result
       THEN success_count' = success_count + 1 /\ failed_files' = failed_files
       ELSE /\ success_count' = success_count
            /\ failed_files' = Append(failed_files, FailureRecord(current_date, hour))
    /\ hour' = hour + 1
    /\ pc' = "dd_fetch" /\ caller' = "none"
    /\ CallIdle
    /\ UNCHANGED <<diskVars, current_date, latest_files, mainVars, startValid, cmpVars>>

\* Lines 189, 293-297: download_day returns; main accumulates and moves on.
DownloadDayEnd ==
    /\ pc = "dd_fetch" /\ hour = HoursPerDay
    /\ successful_downloads' = successful_downloads + success_count
    /\ all_failed_files' = all_failed_files \o failed_files
    /\ current_date' = current_date + 1
    /\ success_count' = 0 /\ failed_files' = <<>> /\ hour' = 0
    /\ pc' = "main_loop"
    /\ UNCHANGED <<diskVars, caller, callVars, latest_files, missing_data,
                   missing_hours, files_to_retry, idx, still_failed, startValid, cmpVars>>

\* ---------------------------------------------------- save_failed_downloads
\* failed_downloads.json after save_failed_downloads(failed), given the file before.
save_failed_downloads_keep(failed, before) ==
    IF failed # <<>> THEN JsonFile(failed) ELSE before

save_failed_downloads_nowrite(failed, before) ==
    IF failed # <<>> THEN before
    ELSE IF before.exists THEN NoFile ELSE before

save_failed_downloads(failed, before) ==
    IF failed # <<>> THEN JsonFile(failed)
    ELSE IF before.exists THEN NoFile ELSE before

\* Lines 300-310: the report is saved once the range is done; the sweep starts.
SaveReport ==
    /\ pc = "main_loop" /\ current_date > NumDays
    /\ failed_report' = save_failed_downloads(all_failed_files, failed_report)
    /\ current_date' = 1 /\ hour' = 0
    /\ missing_data' = <<>> /\ missing_hours' = <<>>
    /\ pc' = "scan"
    /\ UNCHANGED <<fs, dirs, remoteLen, getMode, missing_report, caller, callVars,
                   success_count, failed_files, latest_files,
                   successful_downloads, all_failed_files, files_to_retry, idx,
                   still_failed, startValid, cmpVars>>

\* -------------------------------------------------- check_data_completeness
\* missing_hours after the slot (d, h) was looked at (lines 212-224).
ScanAppend_missingonly(hours, d, h, exists, valid) ==
    IF ~exists THEN Append(hours, MissingEntry(d, h, "missing")) ELSE hours

ScanAppend(hours, d, h, exists, valid) ==
    IF ~exists \/ ~valid
    THEN Append(hours, MissingEntry(d, h, IF ~exists THEN "missing" ELSE "invalid_size"))
    ELSE hours

\* The disk after the slot at path p was looked at: the sweep only reads
\* (os.path.exists, os.path.getsize and a HEAD request, lines 212-216).
ScanDisk_remove(disk, p, valid) ==
    IF ~valid THEN [disk EXCEPT ![p] = Absent] ELSE disk

ScanDisk(disk, p, valid) == disk

\* missing_data after a day's slots were looked at (lines 226-230).
ScanDay(data, d, hours) ==
    IF hours # <<>> THEN Append(data, [date |-> d, missing_hours |-> hours]) ELSE data

\* Lines 196-232 of check_data_completeness(start_date, end_date,
\* verify_size=True): one slot; the last hour of a day closes the day.
ScanSlot ==
    /\ pc = "scan" /\ current_date <= NumDays
    /\ LET p == LocalFilePath(current_date, hour)
           exists == fs[p] # Absent
       IN \E outcome \in (IF exists THEN HeadOutcomes ELSE {"none"}) :
            LET valid == IF exists THEN check_file_integrity(fs[p], outcome) ELSE TRUE
                hours == ScanAppend(missing_hours, current_date, hour, exists, valid)
            IN /\ lastHead' = outcome
               /\ fs' = ScanDisk(fs, p, valid)
               /\ IF hour + 1 < HoursPerDay
                  THEN /\ hour' = hour + 1 /\ current_date' = current_date
                       /\ missing_hours' = hours /\ missing_data' = missing_data
                  ELSE /\ hour' = 0 /\ current_date' = current_date + 1
                       /\ missing_hours' = <<>>
                       /\ missing_data' = ScanDay(missing_data, current_date, hours)
    /\ pc' = "scan"
    /\ UNCHANGED <<dirs, remoteLen, getMode, failed_report, missing_report,
                   caller, url, local_path, max_retries, check_size,
                   retries, result, nGet, hadFile, success_count,
                   failed_files, latest_files, successful_downloads,
                   all_failed_files, files_to_retry, idx, still_failed, startValid, cmpVars>>

\* The hour entries of missing_data in order, each with its day's date.
RECURSIVE Flatten(_)
Flatten(data) ==
    IF data = <<>> THEN <<>> ELSE Head(data).missing_hours \o Flatten(Tail(data))

\* Lines 312-347: the sweep is over; nothing missing ends the run.
ScanEnd ==
    /\ pc = "scan" /\ current_date > NumDays
    /\ pc' = IF missing_data # <<>> THEN "purge" ELSE "done"
    /\ idx' = 1 /\ files_to_retry' = <<>> /\ lastHead' = "none"
    /\ UNCHANGED <<diskVars, caller, url, local_path, max_retries, check_size,
                   retries, result, nGet, hadFile, dayVars,
                   successful_downloads, all_failed_files, missing_data,
                   missing_hours, still_failed, startValid, cmpVars>>

\* Lines 318-333: an invalid file is removed (a failed os.remove is logged and
\* ignored) and the entry joins files_to_retry.
PurgeEntry ==
    /\ pc = "purge" /\ idx <= Len(Flatten(missing_data))
    /\ LET e == Flatten(missing_data)[idx] IN
         /\ IF e.reason = "invalid_size" /\ fs[e.local_path] # Absent
            THEN \/ fs' = [fs EXCEPT ![e.local_path] = Absent]
                 \/ fs' = fs
            ELSE fs' = fs
         /\ files_to_retry' = Append(files_to_retry, FailureRecord(e.date, e.hour))
    /\ idx' = idx + 1
    /\ pc' = "purge"
    /\ UNCHANGED <<dirs, remoteLen, getMode, failed_report, missing_report, caller,
                   callVars, dayVars, successful_downloads, all_failed_files,
                   missing_data, missing_hours, still_failed, startValid, cmpVars>>

\* ---------------------------------------------------- retry_failed_downloads
\* Lines 337, 247-254: retry_failed_downloads(files_to_retry) begins.
RetryStart ==
    /\ pc = "purge" /\ idx > Len(Flatten(missing_data))
    /\ pc' = "retry" /\ idx' = 1 /\ still_failed' = <<>>
    /\ UNCHANGED <<diskVars, caller, callVars, dayVars, successful_downloads,
                   all_failed_files, missing_data, missing_hours,
                   files_to_retry, startValid, cmpVars>>

\* Line 260: download_file(url, local_path, max_retries=3)
RetrySlot ==
    /\ pc = "retry" /\ idx <= Len(files_to_retry)
    /\ EnterDownloadFile(files_to_retry[idx].url, files_to_retry[idx].local_path,
                         DefaultMaxRetries, TRUE, "retry")
    /\ UNCHANGED <<remoteLen, getMode, failed_report, missing_report, dayVars, mainVars,
                   startValid, cmpVars>>

\* Lines 260-263
RetryReturn ==
    /\ pc = "df_ret" /\ caller = "retry"
    /\ still_failed' = IF result THEN still_failed
                       ELSE Append(still_failed, files_to_retry[idx])
    /\ idx' = idx + 1
    /\ pc' = "retry" /\ caller' = "none"
    /\ CallIdle
    /\ UNCHANGED <<diskVars, dayVars, successful_downloads, all_failed_files,
                   missing_data, missing_hours, files_to_retry, startValid, cmpVars>>

\* missing_files.json after the retry pass, given the file before (lines 340-345).
write_missing_files_always(still_missing, before) == JsonFile(still_missing)

write_missing_files_never(still_missing, before) == before

write_missing_files(still_missing, before) ==
    IF still_missing # <<>> THEN JsonFile(still_missing) ELSE before

\* Lines 265, 340-345: the retry pass is over.
Finish ==
    /\ pc = "retry" /\ idx > Len(files_to_retry)
    /\ missing_report' = write_missing_files(still_failed, missing_report)
    /\ pc' = "done"
    /\ UNCHANGED <<fs, dirs, remoteLen, getMode, failed_report, caller, callVars, dayVars,
                   mainVars, startValid, cmpVars>>

\* ------------------------------------------ download_day, called twice
\* download_day(1998, 1, 1, check_latest=True), and then, from the same disk
\* and in the same fixed environment, download_day(..., check_latest=False).
\* The metadata answers are fixed per slot; 404, another status and an
\* exception all make get_remote_file_size return -1, so "exc" stands for them.
FixedEnvs ==
    [fixed : {TRUE}, head : [Paths -> {"ok", "exc"}], body : Sizes,
     part : {Absent} \cup (Sizes \ {MaxSize}), rm : BOOLEAN]

InitDay ==
    /\ remoteLen \in Sizes
    /\ getMode \in {"notfound", "transient", "ioerr", "ok"}
    /\ env \in FixedEnvs
    /\ fs \in [Paths -> {Absent} \cup Sizes]
    /\ dirs = {TheDir}
    /\ failed_report = NoFile /\ missing_report = NoFile
    /\ startValid = AllValid
    /\ check_latest = TRUE /\ first_fs = fs /\ first_result = NoResult
    /\ InitCallAndRun
    /\ pc = "main_loop"

\* Line 189 of the first call: its results are kept, the disk is put back and
\* download_day is called with check_latest=False.
DaySecondCall ==
    /\ pc = "dd_fetch" /\ hour = HoursPerDay /\ check_latest
    /\ first_result' = [count |-> success_count, failed |-> failed_files, disk |-> fs]
    /\ fs' = first_fs
    /\ check_latest' = FALSE
    /\ success_count' = 0 /\ failed_files' = <<>> /\ hour' = 0
    /\ pc' = "main_loop"
    /\ UNCHANGED <<dirs, remoteLen, getMode, failed_report, missing_report, caller,
                   callVars, current_date, latest_files, mainVars, startValid,
                   env, first_fs>>

\* Line 189 of the second call.
DayCompared ==
    /\ pc = "dd_fetch" /\ hour = HoursPerDay /\ ~check_latest
    /\ pc' = "day_done"
    /\ UNCHANGED <<diskVars, caller, callVars, dayVars, mainVars, startValid, cmpVars>>

NextDay ==
    \/ DownloadDayStart \/ CheckLatest \/ FetchSlot \/ DayReturn \/ Attempt
    \/ DaySecondCall \/ DayCompared

SpecDay == InitDay /\ [][NextDay]_vars

\* --------------------------------------------------------------- the run
\* The disk before a run: any files of the range left by earlier runs, their
\* directory if there are any, and the reports an earlier run may have left.
Init ==
    /\ remoteLen \in Sizes
    /\ getMode = "any"
    /\ fs \in [Paths -> {Absent} \cup Sizes]
    /\ dirs \in SUBSET {TheDir}
    /\ (\E q \in Paths : fs[q] # Absent) => TheDir \in dirs
    /\ \E prior \in {NoFile, StaleFile} :
         failed_report = prior /\ missing_report = prior
    /\ startValid = AllValid
    /\ InitLocals
    /\ pc = "main_loop"

Next ==
    \/ DownloadDayStart \/ CheckLatest \/ FetchSlot \/ DayReturn \/ DownloadDayEnd
    \/ Attempt
    \/ SaveReport \/ ScanSlot \/ ScanEnd \/ PurgeEntry
    \/ RetryStart \/ RetrySlot \/ RetryReturn \/ Finish

Spec == Init /\ [][Next]_vars

\* =================================================================== claims
Range(seq) == {seq[i] : i \in 1..Len(seq)}
HeadFailures == {"notfound", "status", "exc"}

\* C1 (as stated): whenever download_file with check_size returns true, the
\* local file exists and its size equals the remote size.
C1_SizeMatchesOnSuccess ==
    (pc = "df_ret" /\ check_size /\ result) => fs[local_path] = remoteLen

\* C1 (amended): whenever download_file with check_size returns true, the
\* local file exists and a metadata request was made for it; if the latest
\* metadata request succeeded, the local size equals the size it reported.
C1_SizeMatchesWhenMetadataOk ==
    (pc = "df_ret" /\ check_size /\ result) =>
        /\ fs[local_path] # Absent
        /\ lastHead \in HeadOutcomes
        /\ lastHead = "ok" => fs[local_path] = remoteLen

C1_Witness ==
    /\ pc = "df_ret" /\ check_size /\ result /\ ~hadFile
    /\ nGet = 2 /\ lastHead = "ok" /\ fs[local_path] = remoteLen

\* C2 (as stated): check_file_integrity returns true exactly when the local
\* file exists and its size equals the remote size.
C2_ValidIffSizesEqual ==
    pc = "cfi_ret" => (result <=> fs[local_path] = remoteLen)

\* C2 (amended): check_file_integrity returns false when the local file is
\* absent; when the metadata request succeeds it returns true exactly when the
\* local size equals the reported size.
C2_ValidIffSizesEqualWhenMetadataOk ==
    pc = "cfi_ret" =>
        /\ fs[local_path] = Absent => ~result
        /\ (fs[local_path] # Absent /\ lastHead = "ok") =>
               (result <=> fs[local_path] = remoteLen)

C2_Witness ==
    /\ pc = "cfi_ret" /\ lastHead = "ok" /\ ~result
    /\ fs[local_path] # Absent /\ fs[local_path] > remoteLen

\* C3: when the local file exists, check_size is set and the metadata request
\* fails (404, another status, or an exception), download_file returns true
\* at once: the file is left as it was and no content request is issued.
C3_OptimisticFallback ==
    [][(pc = "call" /\ hadFile' /\ check_size' /\ lastHead' \in HeadFailures)
          => (pc' = "df_ret" /\ result' /\ fs' = fs /\ nGet' = 0)]_vars

C3_Witness ==
    /\ pc = "df_ret" /\ hadFile /\ check_size /\ lastHead = "exc"
    /\ result /\ nGet = 0 /\ fs[local_path] # remoteLen

\* C4: with no local file and max_retries = 3, a call whose content requests
\* all end in a transient failure returns false after exactly 3 requests; a
\* call whose content request is answered "not found" returns false after
\* exactly 1.
C4_RetryBound ==
    (pc = "df_ret" /\ ~hadFile /\ max_retries = DefaultMaxRetries) =>
        /\ getMode = "transient" => (nGet = DefaultMaxRetries /\ ~result)
        /\ getMode = "notfound" => (nGet = 1 /\ ~result)

C4_Witness ==
    /\ pc = "df_ret" /\ ~hadFile /\ max_retries = DefaultMaxRetries
    /\ getMode = "transient" /\ nGet = DefaultMaxRetries /\ ~result

\* C5: a run that starts with a valid local file in every slot issues no
\* content request, deletes and rewrites nothing, and records no failure and
\* no missing entry.
C5_IdempotentOnValidData ==
    startValid =>
        /\ nGet = 0 /\ pc \notin {"df_loop", "raised"}
        /\ AllValid
        /\ failed_files = <<>> /\ all_failed_files = <<>>
        /\ missing_hours = <<>> /\ missing_data = <<>>
        /\ files_to_retry = <<>> /\ still_failed = <<>>

C5_Witness ==
    /\ startValid /\ pc = "done"
    /\ successful_downloads = NumDays * HoursPerDay

\* C6 (as stated): at the end of a run failed_downloads.json holds only
\* records of slots that are still unresolved: a record whose slot the retry
\* pass of the same run fetched successfully is not in it.
C6_ReportDropsRetriedSlots ==
    pc = "done" =>
        \A r \in Range(failed_report.content) :
            ~(r \in Range(files_to_retry) /\ r \notin Range(still_failed))

\* C6 (amended): at the end of a run failed_downloads.json, if it exists, holds
\* the records of the slots whose first-pass fetch failed, all of them, also
\* those the retry pass fetched.
C6_ReportHoldsFirstPassFailures ==
    (pc = "done" /\ failed_report.exists) =>
        Range(failed_report.content) = Range(all_failed_files)

C6_Witness ==
    /\ pc = "done"
    /\ \E r \in Range(failed_report.content) :
         /\ r \in Range(files_to_retry) /\ r \notin Range(still_failed)
         /\ fs[r.local_path] = remoteLen

\* The hour entries the sweep has collected so far.
ScanEntries == Flatten(missing_data) \o missing_hours
ScanOver == pc = "scan" /\ current_date > NumDays
NumAbsent == Cardinality({p \in Paths : fs[p] = Absent})
NumMismatched == Cardinality({p \in Paths : fs[p] # Absent /\ fs[p] # remoteLen})

\* C7 (as stated): the sweep returns N + M entries, one "missing" per absent
\* slot and one "invalid_size" per slot whose size differs from the remote.
C7_EntryPerMissingOrMismatched ==
    ScanOver =>
        /\ Len(ScanEntries) = NumAbsent + NumMismatched
        /\ \A e \in Range(ScanEntries) :
             e.reason = (IF fs[e.local_path] = Absent THEN "missing" ELSE "invalid_size")

\* C7 (amended): looking at a slot, the sweep adds one entry "missing" if the
\* file is absent, one entry "invalid_size" if the file exists, its metadata
\* request succeeded and the sizes differ, and nothing otherwise (a mismatched
\* file whose metadata request failed is left out).
C7_EntryPerSlotScanned ==
    [][(pc = "scan" /\ current_date <= NumDays) =>
          LET p == LocalFilePath(current_date, hour)
              after == Flatten(missing_data') \o missing_hours'
          IN  after =
                IF fs[p] = Absent
                THEN Append(ScanEntries, MissingEntry(current_date, hour, "missing"))
                ELSE IF lastHead' = "ok" /\ fs[p] # remoteLen
                THEN Append(ScanEntries, MissingEntry(current_date, hour, "invalid_size"))
                ELSE ScanEntries]_vars

C7_Witness ==
    /\ ScanOver /\ NumAbsent = 1 /\ NumMismatched = 2
    /\ Len(ScanEntries) = 2
    /\ \E e \in Range(ScanEntries) : e.reason = "invalid_size"

\* C8: no failure of a single slot aborts the run: no error propagates out of
\* main's loop.
C8_NoFailureAbortsRun == pc # "raised"

\* C9: in a call whose content requests run into a local I/O failure, the
\* first such failure ends the call: it returns false after that one request.
C9_LocalIOFailureIsTerminal ==
    (getMode = "ioerr" /\ nGet >= 1) => (pc = "df_ret" /\ ~result /\ nGet = 1)

\* C10: at the end of a run failed_downloads.json does not exist if the first
\* pass had no failure, and otherwise holds the first-pass failure records in
\* order.
C10_ReportAtEndOfRun ==
    pc = "done" =>
        IF all_failed_files = <<>> THEN ~failed_report.exists
        ELSE failed_report = JsonFile(all_failed_files)

C10_Witness ==
    /\ pc = "done" /\ all_failed_files = <<>>
    /\ missing_report = StaleFile /\ ~failed_report.exists

\* C11: the completeness sweep, and the integrity check it makes for every
\* slot, are read-only: a step of the sweep leaves every local file, the
\* directories and the reports as they were and issues no content request.
C11_SweepIsReadOnly ==
    [][(pc = "scan" /\ current_date <= NumDays) =>
          /\ fs' = fs /\ dirs' = dirs /\ nGet' = nGet
          /\ failed_report' = failed_report /\ missing_report' = missing_report]_vars

C11_Witness ==
    /\ ScanOver
    /\ \E e \in Range(ScanEntries) :
         e.reason = "invalid_size" /\ fs[e.local_path] \notin {Absent, remoteLen}

\* C12: download_file always terminates and issues at most max_retries
\* content requests, however its requests end; a size mismatch after a
\* download counts one attempt and is retried, unless it happens on the last
\* allowed attempt, where download_file returns false.
C12_TerminatesWithinRetries ==
    /\ <>(pc \in {"df_ret", "raised"})
    /\ [](nGet <= max_retries /\ retries <= max_retries)
    /\ [][(pc = "df_loop" /\ getMode = "ok" /\ nGet' = nGet + 1
             /\ ~(pc' = "df_ret" /\ result')) =>
            /\ check_size /\ lastHead' = "ok" /\ fs'[local_path] # remoteLen
            /\ IF retries < max_retries - 1
               THEN pc' = "df_loop" /\ retries' = retries + 1
               ELSE pc' = "df_ret" /\ ~result']_vars

C12_Witness ==
    /\ pc = "df_ret" /\ getMode = "ok" /\ ~result /\ check_size
    /\ max_retries = DefaultMaxRetries /\ nGet = DefaultMaxRetries

\* C13: download_file on a local file that exists.  With check_size: one
\* metadata request; if the check is positive (the request failed, or the
\* sizes are equal) it returns true, the file untouched; if negative the file
\* is deleted before the first content request, or, when the deletion fails,
\* it returns false; in all three cases without a content request so far.
\* Without check_size it returns true with neither request, the file untouched.
C13_ExistingFilePath ==
    [][(pc = "call" /\ hadFile') =>
          LET p == local_path'
              positive == lastHead' # "ok" \/ fs[p] = remoteLen
          IN  /\ nGet' = 0
              /\ IF ~check_size'
                 THEN /\ lastHead' = "none"
                      /\ pc' = "df_ret" /\ result' /\ fs' = fs
                 ELSE /\ lastHead' \in HeadOutcomes
                      /\ IF positive
                         THEN pc' = "df_ret" /\ result' /\ fs' = fs
                         ELSE \/ /\ pc' = "df_loop"
                                 /\ fs' = [fs EXCEPT ![p] = Absent]
                              \/ /\ pc' = "df_ret" /\ ~result' /\ fs' = fs]_vars

\* The deletion failed: false, the mismatched file still there, no request.
C13_Witness ==
    /\ pc = "df_ret" /\ hadFile /\ check_size /\ ~result /\ nGet = 0
    /\ lastHead = "ok" /\ fs[local_path] \notin {Absent, remoteLen}

\* C14: when download_day starts a day, the existing files with the highest
\* hours, the 2 highest or the single one if only one exists, are the ones
\* taken for the integrity check that precedes the day's first fetch.
C14_LatestExistingAreChecked ==
    [][(pc = "main_loop" /\ current_date <= NumDays /\ pc' # "raised") =>
          latest_files' =
              Prefix(SortedDescending(ExistingHours(current_date)), LatestCount)]_vars

\* The tally of download_day while it goes through the slots.
C15_Tally ==
    (pc \in {"dd_fetch", "df_loop", "df_ret"} /\ caller # "retry") =>
        /\ success_count + Len(failed_files) = hour
        /\ \A i \in 1..Len(failed_files) :
              /\ failed_files[i].date = current_date
              /\ failed_files[i].hour < hour
              /\ \A j \in 1..Len(failed_files) :
                    i < j => failed_files[i].hour < failed_files[j].hour

\* The call for the slot at hand, its return, and the return of download_day.
C15_Call ==
    (pc = "dd_fetch" /\ pc' \in {"df_loop", "df_ret", "raised"}) =>
        /\ hour < HoursPerDay
        /\ url' = FileUrl(current_date, hour)
        /\ local_path' = LocalFilePath(current_date, hour)
        /\ hour' = hour

C15_Return ==
    (pc = "df_ret" /\ caller = "day") =>
        /\ hour' = hour + 1 /\ current_date' = current_date
        /\ IF result
           THEN /\ success_count' = success_count + 1
                /\ failed_files' = failed_files
           ELSE /\ success_count' = success_count
                /\ Len(failed_files') = Len(failed_files) + 1
                /\ SubSeq(failed_files', 1, Len(failed_files)) = failed_files
                /\ failed_files'[Len(failed_files')].hour = hour
                /\ failed_files'[Len(failed_files')].local_path = local_path

C15_NextDay ==
    (pc = "dd_fetch" /\ pc' = "main_loop") =>
        /\ success_count + Len(failed_files) = HoursPerDay
        /\ all_failed_files' = all_failed_files \o failed_files
        /\ successful_downloads' = successful_downloads + success_count
        /\ current_date' = current_date + 1

SweepEntries == Flatten(missing_data)

\* C16 (as stated, the deletion): when the retry pass fetches an entry the
\* sweep tagged invalid_size, the entry's local file has been deleted.
C16_InvalidFilesDeletedBeforeRetry ==
    [][(pc = "retry" /\ idx <= Len(files_to_retry)
          /\ SweepEntries[idx].reason = "invalid_size") =>
             fs[SweepEntries[idx].local_path] = Absent]_vars

\* Purging an entry: only an invalid_size entry's file may go, nothing else
\* changes on disk, and the entry joins files_to_retry whether or not its
\* file could be removed.
C16_Purge ==
    (pc = "purge" /\ idx <= Len(SweepEntries)) =>
        LET e == SweepEntries[idx] IN
        /\ \A q \in Paths : q # e.local_path => fs'[q] = fs[q]
        /\ fs'[e.local_path] \in {fs[e.local_path], Absent}
        /\ e.reason = "missing" => fs' = fs
        /\ files_to_retry' = Append(files_to_retry, FailureRecord(e.date, e.hour))
        /\ idx' = idx + 1

\* The retry pass takes the entries one by one in sweep order; a file is there
\* at the fetch only for an invalid_size entry, and is then checked again.
C16_Retry ==
    /\ (pc = "purge" /\ pc' = "retry") =>
          /\ idx' = 1 /\ still_failed' = <<>>
          /\ Len(files_to_retry) = Len(SweepEntries)
          /\ \A i \in 1..Len(SweepEntries) :
                files_to_retry[i].local_path = SweepEntries[i].local_path
    /\ (pc = "retry" /\ idx <= Len(files_to_retry)) =>
          /\ url' = files_to_retry[idx].url
          /\ local_path' = files_to_retry[idx].local_path
          /\ idx' = idx
          /\ hadFile' => (SweepEntries[idx].reason = "invalid_size" /\ check_size')
    /\ (pc = "df_ret" /\ caller = "retry") =>
          /\ idx' = idx + 1
          /\ still_failed' = IF result THEN still_failed
                             ELSE Append(still_failed, files_to_retry[idx])

\* missing_files.json is written at the end of the retry pass, and only if an
\* entry's fetch returned false; it then holds those entries.
C16_Report ==
    /\ (pc = "retry" /\ pc' = "done") =>
          /\ idx = Len(files_to_retry) + 1
          /\ missing_report' = IF still_failed # <<>> THEN JsonFile(still_failed)
                                ELSE missing_report
    /\ ~(pc = "retry" /\ pc' = "done") => missing_report' = missing_report

\* C16 (amended): in the retry pass of main every entry the sweep reported is
\* passed to download_file once, in sweep order; before that a deletion of
\* every invalid_size entry's file is attempted, and when it fails the file
\* stays and the entry is fetched all the same (download_file checks the file
\* again); missing_files.json is written in this run exactly if an entry's
\* retry fetch returned false, and then holds those entries in sweep order.
C16_RetryPass == [][C16_Purge /\ C16_Retry /\ C16_Report]_vars

C16_Witness ==
    /\ pc = "done" /\ Len(files_to_retry) = 3 /\ Len(still_failed) = 1
    /\ missing_report = JsonFile(still_failed)
    /\ \E e \in Range(SweepEntries) : e.reason = "invalid_size"
    /\ \E e \in Range(SweepEntries) : e.reason = "missing"

\* The download loop starts on an empty path: what an attempt overwrites is
\* what an earlier attempt of the same call wrote.
C17_LoopStartsOnEmptyPath ==
    (pc = "df_loop" /\ nGet = 0) => fs[local_path] = Absent

\* A step that deletes or rewrites the file at p does so after a metadata
\* request for p succeeded and reported another size than the file's.
C17_OnlyAfterMismatch(p) ==
    (fs[p] # Absent /\ fs'[p] # fs[p]) =>
        \/ pc = "df_loop" /\ p = local_path
        \/ /\ fs[p] # remoteLen /\ fs'[p] = Absent
           /\ \/ /\ pc = "dd_latest"
                    /\ p = LocalFilePath(current_date, Head(latest_files))
                    /\ lastHead' = "ok"
              \/ /\ pc \in {"dd_fetch", "retry"}
                    /\ p = local_path' /\ lastHead' = "ok"
              \/ /\ pc = "purge"
                    /\ SweepEntries[idx].local_path = p
                    /\ SweepEntries[idx].reason = "invalid_size"

\* C17: valid data is never destroyed.  During a run a local file is deleted
\* only after a metadata request for its slot succeeded and reported a size
\* different from the file's, and is overwritten only by the call that wrote
\* it: no file is deleted or overwritten while its metadata request fails, and
\* a file that was there before the run with the remote size is never touched.
C17_ValidDataIsKept ==
    /\ []C17_LoopStartsOnEmptyPath
    /\ [][\A p \in Paths : C17_OnlyAfterMismatch(p)]_vars

C17_Witness ==
    /\ pc = "df_loop" /\ caller = "day" /\ hadFile /\ lastHead = "ok"
    /\ nGet = 0 /\ fs[local_path] = Absent
    /\ \E q \in Paths : q # local_path /\ fs[q] = remoteLen

\* C18: when main finishes, every slot of the range has a local file or is
\* listed in the still-missing report this run wrote; so if the run wrote no
\* such report, every slot has a local file.
C18_EndOfRunCoverage ==
    pc = "done" =>
        /\ \A p \in Paths :
              \/ fs[p] # Absent
              \/ /\ missing_report = JsonFile(still_failed)
                 /\ \E r \in Range(missing_report.content) : r.local_path = p
        /\ still_failed = <<>> => \A p \in Paths : fs[p] # Absent

C18_Witness ==
    /\ pc = "done"
    /\ \E p, q \in Paths :
         /\ fs[p] = Absent /\ fs[q] # Absent
         /\ \E r \in Range(missing_report.content) : r.local_path = p
    /\ Len(still_failed) = 1

\* C19: a run in which the sweep finds nothing missing, or the retry pass
\* resolves every entry, ends with no missing_files.json on disk, also when
\* an earlier run left one.
C19_NoStaleMissingReport ==
    (pc = "done" /\ still_failed = <<>>) => ~missing_report.exists

\* C20: with the remote answers fixed per slot, download_day with
\* check_latest=True and with check_latest=False, started on the same local
\* files, return the same success_count and failed_files and leave the same
\* local files with the same sizes.
C20_CheckLatestIsRedundant ==
    pc = "day_done" =>
        first_result = [count |-> success_count, failed |-> failed_files, disk |-> fs]

\* The pre-check of the first call removed the last hour's file, which both
\* calls then fetched again.
C20_Witness ==
    /\ pc = "day_done" /\ env.rm /\ getMode = "ok"
    /\ Cardinality({q \in Paths : first_fs[q] # Absent}) >= LatestCount
    /\ LET p == LocalFilePath(1, HoursPerDay - 1) IN
         /\ first_fs[p] \notin {Absent, remoteLen} /\ env.head[p] = "ok"
         /\ fs[p] = remoteLen /\ first_result.disk[p] = remoteLen
    /\ success_count = HoursPerDay

====
